---- MODULE Spec2Model ----
(***************************************************************************)
(* SmolDungeon combat core (Go port, package main of apps/dm-go):          *)
(* CreateInitialState, ApplyAction with its five handlers, advanceTurn and *)
(* CheckCombatEnd, driven by a caller that feeds every returned State back *)
(* into the next ApplyAction call; and the session layer of apps/dm-go,  *)
(* whose HTTP handlers keep each session's State in the stateManager and   *)
(* its sessions, events and snapshots in the event store.                  *)
(*                                                                         *)
(* Go values are modelled structurally: a slice is a sequence, a pointer   *)
(* into State.Characters is a 1-based index (0 is the nil pointer), a      *)
(* map[string]int is a record <<isNil, kv>>, a *string is either Nil or    *)
(* the string.  State.CurrentTurn keeps the code's 0-based value.          *)
(***************************************************************************)
EXTENDS Integers, Sequences, FiniteSets, TLC

VARIABLES
    state,      \* the State the caller holds (the last Resolution.State)
    initial,    \* the State returned by CreateInitialState
    arg,        \* the State value passed to the last ApplyAction call
    argMem,     \* what the memory behind that argument holds after the call
    action,     \* the Action of the last call
    events,     \* Resolution.Events of the last call
    logs,       \* Resolution.Logs of the last call
    advanced,   \* TRUE iff the last call ran advanceTurn
    sinceUse,   \* per <<character, ability>>: turn advances since its last successful use
    horizon,    \* the caller stops driving once state.round reaches it
    panicked,   \* TRUE once an ApplyAction call has panicked
    mode,       \* "calls": a few calls, each kept with its argument and Resolution;
                \* "history": a few calls, the events of them all kept;
                \* "encounter": a whole encounter, only the State kept;
                \* "policy": a whole encounter up to the round cap, every call a
                \*           step: calls counted modulo 2, advanced kept
                \* "roster": a large party, one call on its initial State
                \* "session": the HTTP handlers, the caller above idle
                \* "manager": goroutines calling the StateManager's methods
                \* "requests": action requests handled concurrently
                \* "faults": action requests one at a time, the store failing
                \* "store": SaveSnapshot and AppendEvents calls on the event store
    calls,      \* the number of calls made so far
    stateManager,   \* StateManager.states: session id -> State
    sessions,       \* the event store's sessions, in insertion order
    snapshots,      \* the event store's snapshots, in insertion order
    eventLog,       \* the event store's events, in insertion order
    backend,        \* "memory": MemoryEventStore, "sqlite": EventStore
    served,         \* the number of HTTP requests answered, modulo 2
    mu,             \* StateManager.mu: the goroutines holding the RWMutex
    routines        \* per goroutine: the call or request it runs, and where it stands

coreVars == <<state, initial, arg, argMem, action, events, logs, advanced, sinceUse,
             horizon, panicked, mode, calls>>

storeVars == <<stateManager, sessions, snapshots, eventLog, backend, served,
               mu, routines>>

vars == <<state, initial, arg, argMem, action, events, logs, advanced, sinceUse,
         horizon, panicked, mode, calls,
         stateManager, sessions, snapshots, eventLog, backend, served,
         mu, routines>>

----------------------------------------------------------------------------
(* Bounds of the exploration *)

\* the caller applies actions while state.round < MaxRound
MaxRound == 3
\* a "calls" run makes at most MaxCalls calls
MaxCalls == 2
\* the event store takes requests while it holds at most MaxStored rows
MaxStored == 3
\* raw generator outputs a seed may produce: {(k * 59) % 60 : k \in 0..MaxRaw}
MaxRaw == 1

(* Program constants *)

\* CheckCombatEnd: state.Round >= 20
RoundCap == 20
\* handleAttack: target.Stats.Defense + 10
HitBase == 10
\* handleFlee: fleeRoll + Speed >= 15
FleeDC == 15
\* handleDefend: Defense += 2, advanceTurn: Defense - 2
DefendBonus == 2
\* advanceTurn: Defense > 5
DefenseBaseline == 5
\* handleUseItem: 20 + RollD6()
PotionHeal == 20

Nil == "<nil>"
NoID == ""

Max(a, b) == IF a >= b THEN a ELSE b
Min(a, b) == IF a <= b THEN a ELSE b

----------------------------------------------------------------------------
(* rng.go: SeededRNG.  rand.New(rand.NewSource(seed)) turns the seed into  *)
(* a fixed stream of raw values; the model takes the stream itself as the  *)
(* seed.  An rng is <<stream, number of draws made so far>>.               *)

RawVals == {(k * 59) % 60 : k \in 0..MaxRaw}

NewSeededRNG(s) == [stream |-> s, pos |-> 0]

\* rand.Intn(n) on the next raw value
Intn(rng, n) == rng.stream[rng.pos + 1] % n

Advance(rng) == [rng EXCEPT !.pos = @ + 1]

RollD20(rng) == Intn(rng, 20) + 1

RollD6(rng) == Intn(rng, 6) + 1

----------------------------------------------------------------------------
(* types.go *)

Stat(hp, maxHp, attack, defense, speed) ==
    [hp |-> hp, maxHp |-> maxHp, attack |-> attack, defense |-> defense, speed |-> speed]

Weapon(id, name, damage, accuracy) ==
    [id |-> id, name |-> name, damage |-> damage, accuracy |-> accuracy]

Ability(id, name, cooldown, effect, power) ==
    [id |-> id, name |-> name, cooldown |-> cooldown, effect |-> effect, power |-> power]

Item(id, name) == [id |-> id, name |-> name]

\* make(map[string]int)
EmptyMap == [isNil |-> FALSE, kv |-> <<>>]

\* m[k] of a Go map: the zero value when the key is absent (or the map nil)
MapGet(m, k) == IF k \in DOMAIN m.kv THEN m.kv[k] ELSE 0

\* m[k] = v
MapSet(m, k, v) ==
    [m EXCEPT !.kv = [x \in (DOMAIN m.kv) \cup {k} |-> IF x = k THEN v ELSE m.kv[x]]]

Character(id, name, isPlayer, stats, weapons, abilities, items) ==
    [id |-> id, name |-> name, stats |-> stats, weapons |-> weapons,
     abilities |-> abilities, items |-> items,
     abilityCooldowns |-> EmptyMap, isPlayer |-> isPlayer]

Event(type, target, amount, source, actor, ability, item) ==
    [type |-> type, target |-> target, amount |-> amount, source |-> source,
     actor |-> actor, ability |-> ability, item |-> item]

Action(kind, attacker, target, weapon, actor, ability, item) ==
    [kind |-> kind, attacker |-> attacker, target |-> target, weapon |-> weapon,
     actor |-> actor, ability |-> ability, item |-> item]

\* a formatted log line: the format string and its arguments
Log(text, a, b, c, n) == [text |-> text, a |-> a, b |-> b, c |-> c, n |-> n]

Line(text) == Log(text, "", "", "", 0)

State(round, characters, turnOrder, currentTurn, isComplete, winner) ==
    [round |-> round, characters |-> characters, turnOrder |-> turnOrder,
     currentTurn |-> currentTurn, isComplete |-> isComplete, winner |-> winner]

\* what a handler returns: the Resolution (events, state, logs), plus
\*   work:     the characters behind the *State it was handed, as it left them
\*   advanced: whether it ran advanceTurn
\*   panic:    whether it panicked instead of returning
Resolution(ev, st, lg, work, adv, panic) ==
    [events |-> ev, state |-> st, logs |-> lg, work |-> work, advanced |-> adv,
     panic |-> panic]

----------------------------------------------------------------------------
(* game.go *)

\* strings.Contains over the characters of the two strings
Contains(s, sub) ==
    \E i \in 0..(Len(s) - Len(sub)) : SubSeq(s, i + 1, i + Len(sub)) = sub

\* the characters of the item names the rosters use, and of the session ids
\* the event store is queried with
Chars ==
    [s1 |-> <<"s", "1">>,
     s12 |-> <<"s", "1", "2">>,
     u1 |-> <<"u", "1">>,
     Rock |-> <<"R", "o", "c", "k">>,
     Potion |-> <<"P", "o", "t", "i", "o", "n">>,
     HealthPotion |-> <<"H", "e", "a", "l", "t", "h", " ", "P", "o", "t", "i", "o", "n">>,
     Potato |-> <<"P", "o", "t", "a", "t", "o">>]

\* the index of the first element of seq with the given id, 0 when there is none
IndexOfID(seq, id) ==
    IF \E i \in 1..Len(seq) : seq[i].id = id
    THEN CHOOSE i \in 1..Len(seq) :
             seq[i].id = id /\ \A j \in 1..(i - 1) : seq[j].id # id
    ELSE 0

GetCharacterByID(st, id) == IndexOfID(st.characters, id)

\* json.Marshal then json.Unmarshal of one Character: every field is tagged
\* and exported, so each is written and read back; a nil map is written as
\* null and read back as nil
CopyCharacter(c) ==
    [id |-> c.id, name |-> c.name,
     stats |-> Stat(c.stats.hp, c.stats.maxHp, c.stats.attack, c.stats.defense, c.stats.speed),
     weapons |-> [i \in 1..Len(c.weapons) |->
                     Weapon(c.weapons[i].id, c.weapons[i].name,
                            c.weapons[i].damage, c.weapons[i].accuracy)],
     abilities |-> [i \in 1..Len(c.abilities) |->
                       Ability(c.abilities[i].id, c.abilities[i].name, c.abilities[i].cooldown,
                               c.abilities[i].effect, c.abilities[i].power)],
     items |-> [i \in 1..Len(c.items) |-> Item(c.items[i].id, c.items[i].name)],
     abilityCooldowns |-> [isNil |-> c.abilityCooldowns.isNil,
                           kv |-> [k \in DOMAIN c.abilityCooldowns.kv |-> c.abilityCooldowns.kv[k]]],
     isPlayer |-> c.isPlayer]

\* the mutant of deepCopyState: the shallow fallback (return state), whose
\* Characters share their memory with the argument
deepCopyState_shallow(st) == [state |-> st, aliased |-> TRUE]

\* deepCopyState: a copy through JSON that shares no memory with its argument;
\* Winner is omitempty, so a nil winner is left out and read back as nil
deepCopyState(st) ==
    [state |-> State(st.round,
                     [i \in 1..Len(st.characters) |-> CopyCharacter(st.characters[i])],
                     [i \in 1..Len(st.turnOrder) |-> st.turnOrder[i]],
                     st.currentTurn, st.isComplete,
                     IF st.winner = Nil THEN Nil ELSE st.winner),
     aliased |-> FALSE]

CheckCombatEnd(st) == st.isComplete \/ st.round >= RoundCap

\* Go's integer division truncates toward zero
GoDiv(a, b) == IF a >= 0 THEN a \div b ELSE -((-a) \div b)

\* mutant: a strict comparison
IsHit_strict(attackRoll, attack, defense) == attackRoll + attack > defense + HitBase

\* hit := attackRoll+attacker.Stats.Attack >= target.Stats.Defense+10
IsHit(attackRoll, attack, defense) == attackRoll + attack >= defense + HitBase

\* mutant: no floor of 1
TotalDamage_noFloor(baseDamage, damageRoll, defense) == baseDamage + damageRoll - defense

\* totalDamage := int(math.Max(1, float64(baseDamage+damageRoll-target.Stats.Defense)))
TotalDamage(baseDamage, damageRoll, defense) == Max(1, baseDamage + damageRoll - defense)

\* mutant: no clamp at 0
ApplyDamage_noClamp(hp, damage) == hp - damage

\* target.Stats.HP = int(math.Max(0, float64(target.Stats.HP-damage)))
ApplyDamage(hp, damage) == Max(0, hp - damage)

\* character.Stats.HP = int(math.Min(float64(MaxHP), float64(HP+healAmount)))
ApplyHeal(hp, maxHp, healAmount) == Min(maxHp, hp + healAmount)

\* mutant: no wrap-around
NextTurn_noWrap(currentTurn, n) == currentTurn + 1

\* updatedState.CurrentTurn = (updatedState.CurrentTurn + 1) % len(updatedState.TurnOrder)
NextTurn(currentTurn, n) == (currentTurn + 1) % n

\* mutant: the round is never incremented
NextRound_stuck(round, currentTurn) == round

\* mutant: every turn is a round
NextRound_every(round, currentTurn) == round + 1

\* if updatedState.CurrentTurn == 0 { updatedState.Round++ }
NextRound(round, currentTurn) == IF currentTurn = 0 THEN round + 1 ELSE round

\* mutant: the cooldowns are not decayed
DecayCharacter_noDecay(ch) ==
    [ch EXCEPT
        !.stats.defense = IF @ > DefenseBaseline THEN Max(0, @ - DefendBonus) ELSE @]

\* advanceTurn's loop body for one character: cooldown decay, then the
\* defense reset
DecayCharacter(ch) ==
    [ch EXCEPT
        !.abilityCooldowns.kv = [k \in DOMAIN @ |-> IF @[k] > 0 THEN @[k] - 1 ELSE @[k]],
        !.stats.defense = IF @ > DefenseBaseline THEN Max(0, @ - DefendBonus) ELSE @]

AlivePlayers(chars) == {i \in 1..Len(chars) : chars[i].isPlayer /\ chars[i].stats.hp > 0}

AliveEnemies(chars) == {i \in 1..Len(chars) : ~chars[i].isPlayer /\ chars[i].stats.hp > 0}

\* an advanceTurn that computes IsComplete from the counts alone
endOfTurn_recount(u, chars, mem, alivePlayers, aliveEnemies) ==
    LET isComplete == alivePlayers = 0 \/ aliveEnemies = 0
        winner == IF alivePlayers = 0 THEN "enemy"
                  ELSE IF aliveEnemies = 0 THEN "player" ELSE u.winner
        panic == ~isComplete /\ Len(u.turnOrder) = 0
        currentTurn == IF ~isComplete /\ ~panic
                       THEN NextTurn(u.currentTurn, Len(u.turnOrder)) ELSE u.currentTurn
        round == IF ~isComplete /\ ~panic THEN NextRound(u.round, currentTurn) ELSE u.round
    IN [state |-> State(round, chars, u.turnOrder, currentTurn, isComplete, winner),
        mem |-> mem,
        panic |-> panic]

\* advanceTurn from "Check for combat end" on, given the decayed characters of
\* the copy u and the counts of the living: the win condition, then the turn
\* and the round; panic is the integer divide by zero of
\* (CurrentTurn + 1) % len(TurnOrder)
endOfTurn(u, chars, mem, alivePlayers, aliveEnemies) ==
    LET isComplete == IF alivePlayers = 0 \/ aliveEnemies = 0 THEN TRUE ELSE u.isComplete
        winner == IF alivePlayers = 0 THEN "enemy"
                  ELSE IF aliveEnemies = 0 THEN "player" ELSE u.winner
        panic == ~isComplete /\ Len(u.turnOrder) = 0
        currentTurn == IF ~isComplete /\ ~panic
                       THEN NextTurn(u.currentTurn, Len(u.turnOrder)) ELSE u.currentTurn
        round == IF ~isComplete /\ ~panic THEN NextRound(u.round, currentTurn) ELSE u.round
    IN [state |-> State(round, chars, u.turnOrder, currentTurn, isComplete, winner),
        mem |-> mem,
        panic |-> panic]

\* advanceTurn after its loop over the characters of the copy c: chars are
\* the decayed characters, which the argument's memory holds too when the copy
\* is the shallow one
afterDecay(st, c, chars) ==
    endOfTurn(c.state, chars, IF c.aliased THEN chars ELSE st.characters,
              Cardinality(AlivePlayers(chars)), Cardinality(AliveEnemies(chars)))

\* advanceTurn on the copy c of its argument
advanceCopy(st, c) ==
    afterDecay(st, c, [i \in 1..Len(c.state.characters) |-> DecayCharacter(c.state.characters[i])])

\* advanceTurn returns the updated State; mem is what the characters behind
\* its argument hold afterwards
advanceTurn(st) == advanceCopy(st, deepCopyState(st))

\* the Resolution of a handler whose advanceTurn(*state) returned adv
resolutionOf(ev, lg, adv) == Resolution(ev, adv.state, lg, adv.mem, TRUE, adv.panic)

\* the return of a handler that ends with advanceTurn(*state)
Advanced(st, ev, lg) == resolutionOf(ev, lg, advanceTurn(st))

\* the return of a handler that gives up: Resolution{events, *state, logs + line}
SoftFail(st, ev, lg, text) ==
    Resolution(ev, st, Append(lg, Line(text)), st.characters, FALSE, FALSE)

\* handleAttack once attacker and target are found; t is the target's index
\* and w the index of the weapon among the attacker's, 0 when it has none such
attackWith(st, rng, ev, lg, t, attacker, target, w) ==
    LET weapon == IF w = 0 THEN Weapon(NoID, "Fist", 1, 0) ELSE attacker.weapons[w]
        lg1 == IF w = 0 THEN Append(lg, Line("Weapon not found - using default")) ELSE lg
        attackRoll == RollD20(rng)
        hit == IsHit(attackRoll, attacker.stats.attack, target.stats.defense)
        baseDamage == weapon.damage + GoDiv(attacker.stats.attack, 2)
        damageRoll == RollD6(Advance(rng))
        totalDamage == TotalDamage(baseDamage, damageRoll, target.stats.defense)
        hp == ApplyDamage(target.stats.hp, totalDamage)
        damage == Event("damage", target.id, totalDamage, attacker.id, NoID, NoID, NoID)
        death == Event("death", target.id, 0, NoID, NoID, NoID, NoID)
        attacks == Log("%s attacks %s with %s for %d damage!",
                       attacker.name, target.name, weapon.name, totalDamage)
        defeated == Log("%s has been defeated!", target.name, "", "", 0)
        misses == Log("%s misses %s!", attacker.name, target.name, "", 0)
    IN IF hit
       THEN Advanced([st EXCEPT !.characters[t].stats.hp = hp],
                     IF hp = 0 THEN ev \o <<damage, death>> ELSE Append(ev, damage),
                     IF hp = 0 THEN lg1 \o <<attacks, defeated>> ELSE Append(lg1, attacks))
       ELSE Advanced(st, ev, Append(lg1, misses))

handleAttack(st, act, rng, ev, lg) ==
    LET a == GetCharacterByID(st, act.attacker)
        t == GetCharacterByID(st, act.target)
    IN IF a = 0 \/ t = 0 THEN SoftFail(st, ev, lg, "Invalid attack action")
       ELSE attackWith(st, rng, ev, lg, t, st.characters[a], st.characters[t],
                       IndexOfID(st.characters[a].weapons, act.weapon))

handleDefend(st, act, rng, ev, lg) ==
    LET c == GetCharacterByID(st, act.actor)
    IN IF c = 0 THEN SoftFail(st, ev, lg, "Invalid defend action")
       ELSE Advanced([st EXCEPT !.characters[c].stats.defense = @ + DefendBonus],
                     ev,
                     Append(lg, Log("%s takes a defensive stance!",
                                    st.characters[c].name, "", "", 0)))

\* handleAbility from "switch ability.Effect" on: st1 holds the new cooldown,
\* ev1 the ability_used event, amount is power + d6
abilityEffect(st1, act, ev1, lg, c, character, ability, amount) ==
    LET t == IF act.target # NoID THEN GetCharacterByID(st1, act.target) ELSE 0
        target == st1.characters[t]
        hp == ApplyDamage(target.stats.hp, amount)
        damage == Event("damage", target.id, amount, character.id, NoID, NoID, NoID)
        death == Event("death", target.id, 0, NoID, NoID, NoID, NoID)
        uses == Log("%s uses %s on %s for %d damage!",
                    character.name, ability.name, target.name, amount)
        defeated == Log("%s has been defeated!", target.name, "", "", 0)
    IN IF ability.effect = "damage" /\ t # 0
       THEN Advanced([st1 EXCEPT !.characters[t].stats.hp = hp],
                     IF hp = 0 THEN ev1 \o <<damage, death>> ELSE Append(ev1, damage),
                     IF hp = 0 THEN lg \o <<uses, defeated>> ELSE Append(lg, uses))
       ELSE IF ability.effect = "heal"
       THEN Advanced([st1 EXCEPT !.characters[c].stats.hp =
                                     ApplyHeal(@, character.stats.maxHp, amount)],
                     Append(ev1, Event("heal", character.id, amount, NoID, NoID, NoID, NoID)),
                     Append(lg, Log("%s uses %s and heals for %d HP!",
                                    character.name, ability.name, "", amount)))
       ELSE Advanced(st1, ev1, lg)

\* mutant: the cooldown check is left out
useAbility_noCheck(st, act, rng, ev, lg, c, character, ability) ==
    IF character.abilityCooldowns.isNil
    THEN Resolution(ev, st, lg, st.characters, FALSE, TRUE)
    ELSE abilityEffect([st EXCEPT !.characters[c].abilityCooldowns =
                                      MapSet(@, ability.id, ability.cooldown)],
                       act,
                       Append(ev, Event("ability_used", act.target, 0, NoID,
                                        character.id, ability.id, NoID)),
                       lg, c, character, ability,
                       ability.power + RollD6(rng))

\* handleAbility once the ability is found: the cooldown check, the new
\* cooldown, the ability_used event and the roll
useAbility(st, act, rng, ev, lg, c, character, ability) ==
    IF MapGet(character.abilityCooldowns, ability.id) > 0
    THEN Resolution(ev, st, Append(lg, Log("%s is on cooldown!", ability.name, "", "", 0)),
                    st.characters, FALSE, FALSE)
    ELSE IF character.abilityCooldowns.isNil
    THEN \* assignment to entry in nil map
         Resolution(ev, st, lg, st.characters, FALSE, TRUE)
    ELSE abilityEffect([st EXCEPT !.characters[c].abilityCooldowns =
                                      MapSet(@, ability.id, ability.cooldown)],
                       act,
                       Append(ev, Event("ability_used", act.target, 0, NoID,
                                        character.id, ability.id, NoID)),
                       lg, c, character, ability,
                       ability.power + RollD6(rng))

handleAbility(st, act, rng, ev, lg) ==
    LET c == GetCharacterByID(st, act.actor)
        a == IF c = 0 THEN 0 ELSE IndexOfID(st.characters[c].abilities, act.ability)
    IN IF c = 0 THEN SoftFail(st, ev, lg, "Invalid ability action")
       ELSE IF a = 0 THEN SoftFail(st, ev, lg, "Ability not found")
       ELSE useAbility(st, act, rng, ev, lg, c, st.characters[c], st.characters[c].abilities[a])

\* the inventory after append(Items[:i], Items[i+1:]...), i 1-based here
RemoveAt(items, i) == SubSeq(items, 1, i - 1) \o SubSeq(items, i + 1, Len(items))

\* what the pointer item = &character.Items[i], taken before the removal,
\* reads afterwards: the append shifts the tail of the inventory down inside
\* the same backing array, so the slot holds the next item, or still the
\* removed one when that was the last
ItemAfterRemoval(items, i) == IF i < Len(items) THEN items[i + 1] ELSE items[i]

\* handleUseItem from the removal on: item is what the pointer reads once
\* the item of index itemIndex is removed
consumeItem(st, rng, ev, lg, c, character, itemIndex, item) ==
    LET st1 == [st EXCEPT !.characters[c].items = RemoveAt(@, itemIndex)]
        ev1 == Append(ev, Event("item_used", NoID, 0, NoID, character.id, NoID, item.id))
        healAmount == PotionHeal + RollD6(rng)
    IN IF Contains(Chars[item.name], Chars["Potion"])
       THEN Advanced([st1 EXCEPT !.characters[c].stats.hp =
                                     ApplyHeal(@, character.stats.maxHp, healAmount)],
                     Append(ev1, Event("heal", character.id, healAmount, NoID,
                                       NoID, NoID, NoID)),
                     Append(lg, Log("%s uses %s and heals for %d HP!",
                                    character.name, item.name, "", healAmount)))
       ELSE Advanced(st1, ev1, lg)

handleUseItem(st, act, rng, ev, lg) ==
    LET c == GetCharacterByID(st, act.actor)
        itemIndex == IF c = 0 THEN 0 ELSE IndexOfID(st.characters[c].items, act.item)
    IN IF c = 0 THEN SoftFail(st, ev, lg, "Invalid item action")
       ELSE IF itemIndex = 0 THEN SoftFail(st, ev, lg, "Item not found")
       ELSE consumeItem(st, rng, ev, lg, c, st.characters[c], itemIndex,
                        ItemAfterRemoval(st.characters[c].items, itemIndex))

\* mutant: a successful flee completes the encounter without a winner
fleeWith_noWinner(st, rng, ev, lg, character) ==
    IF RollD20(rng) + character.stats.speed >= FleeDC
    THEN Resolution(Append(ev, Event("flee", NoID, 0, NoID, character.id, NoID, NoID)),
                    State(st.round, st.characters, st.turnOrder, st.currentTurn, TRUE, Nil),
                    Append(lg, Log("%s successfully flees from combat!",
                                   character.name, "", "", 0)),
                    st.characters, FALSE, FALSE)
    ELSE Advanced(st, ev, Append(lg, Log("%s fails to flee!", character.name, "", "", 0)))

\* mutant: a successful flee runs advanceTurn as well
fleeWith_consumed(st, rng, ev, lg, character) ==
    IF RollD20(rng) + character.stats.speed >= FleeDC
    THEN resolutionOf(Append(ev, Event("flee", NoID, 0, NoID, character.id, NoID, NoID)),
                      Append(lg, Log("%s successfully flees from combat!",
                                     character.name, "", "", 0)),
                      advanceTurn(State(st.round, st.characters, st.turnOrder,
                                        st.currentTurn, TRUE, "player")))
    ELSE Advanced(st, ev, Append(lg, Log("%s fails to flee!", character.name, "", "", 0)))

\* handleFlee once the character is found
fleeWith(st, rng, ev, lg, character) ==
    IF RollD20(rng) + character.stats.speed >= FleeDC
    THEN Resolution(Append(ev, Event("flee", NoID, 0, NoID, character.id, NoID, NoID)),
                    State(st.round, st.characters, st.turnOrder, st.currentTurn,
                          TRUE, "player"),
                    Append(lg, Log("%s successfully flees from combat!",
                                   character.name, "", "", 0)),
                    st.characters, FALSE, FALSE)
    ELSE Advanced(st, ev, Append(lg, Log("%s fails to flee!", character.name, "", "", 0)))

handleFlee(st, act, rng, ev, lg) ==
    LET c == GetCharacterByID(st, act.actor)
    IN IF c = 0 THEN SoftFail(st, ev, lg, "Invalid flee action")
       ELSE fleeWith(st, rng, ev, lg, st.characters[c])

getActorID(act) ==
    IF act.kind = "Attack" THEN act.attacker
    ELSE IF act.kind \in {"Defend", "Ability", "UseItem", "Flee"} THEN act.actor
    ELSE NoID

validKinds == {"Attack", "Defend", "Ability", "UseItem", "Flee"}

\* ApplyAction on newState, the copy of its argument: the actor and kind
\* checks, then the switch on action.Kind
dispatch(st, act, rng, ev, lg, newState) ==
    IF GetCharacterByID(newState, getActorID(act)) = 0
    THEN Resolution(ev, st, Append(lg, Line("Invalid action: character not found")),
                    newState.characters, FALSE, FALSE)
    ELSE IF act.kind \notin validKinds
    THEN Resolution(ev, st, Append(lg, Line("Invalid action kind")),
                    newState.characters, FALSE, FALSE)
    ELSE IF act.kind = "Attack" THEN handleAttack(newState, act, rng, ev, lg)
    ELSE IF act.kind = "Defend" THEN handleDefend(newState, act, rng, ev, lg)
    ELSE IF act.kind = "Ability" THEN handleAbility(newState, act, rng, ev, lg)
    ELSE IF act.kind = "UseItem" THEN handleUseItem(newState, act, rng, ev, lg)
    ELSE handleFlee(newState, act, rng, ev, lg)

\* what the caller of ApplyAction holds once r is returned: the Resolution,
\* whether the Turn Advancer ran or the call panicked, and argMem, what the
\* memory behind the state argument holds
returned(st, aliased, r) ==
    [events |-> r.events, state |-> r.state, logs |-> r.logs,
     advanced |-> r.advanced, panic |-> r.panic,
     argMem |-> IF aliased THEN [st EXCEPT !.characters = r.work] ELSE st]

\* mutant: the logs start empty
applyOn_unlogged(st, act, sd, c) ==
    returned(st, c.aliased, dispatch(st, act, NewSeededRNG(sd), <<>>, <<>>, c.state))

\* ApplyAction with c the copy deepCopyState(state) made
applyOn(st, act, sd, c) ==
    returned(st, c.aliased,
             dispatch(st, act, NewSeededRNG(sd), <<>>,
                      <<Line("Actor bypass: Direct mutation used")>>, c.state))

ApplyAction(st, act, sd) == applyOn(st, act, sd, deepCopyState(st))

----------------------------------------------------------------------------
(* CreateInitialState *)

\* sort.Slice on at most 12 elements ends with an insertion sort: each element
\* moves left while less(j, j-1), that is while its initiative is strictly
\* greater.  On at most 6 elements that is all any Go release does.
RECURSIVE InsertByInitiative(_, _)
InsertByInitiative(sorted, x) ==
    IF sorted = <<>> \/ ~(x.initiative > sorted[Len(sorted)].initiative)
    THEN Append(sorted, x)
    ELSE Append(InsertByInitiative(SubSeq(sorted, 1, Len(sorted) - 1), x),
                sorted[Len(sorted)])

RECURSIVE SortByInitiative(_)
SortByInitiative(s) ==
    IF s = <<>> THEN <<>>
    ELSE InsertByInitiative(SortByInitiative(SubSeq(s, 1, Len(s) - 1)), s[Len(s)])

\* sort.Slice of Go 1.18 and older on 7 to 12 elements: before the insertion
\* sort one ShellSort pass with gap 6, swapping s[i] and s[i-6] when less(i, i-6)
RECURSIVE shellPass(_, _)
shellPass(s, i) ==
    IF i > Len(s) THEN s
    ELSE shellPass(IF s[i].initiative > s[i - 6].initiative
                   THEN [s EXCEPT ![i] = s[i - 6], ![i - 6] = s[i]]
                   ELSE s,
                   i + 1)

\* the orders sort.Slice can leave at most 12 elements in, over the Go
\* releases the package builds with: its contract does not promise stability
SortOutcomes(s) ==
    {SortByInitiative(s)}
        \cup (IF Len(s) > 6 THEN {SortByInitiative(shellPass(s, 7))} ELSE {})

\* the initiatives CreateInitialState draws
Initiatives(allCharacters, sd) ==
    [i \in 1..Len(allCharacters) |->
        [id |-> allCharacters[i].id,
         initiative |-> allCharacters[i].stats.speed
                        + RollD20([stream |-> sd, pos |-> i - 1])]]

\* the States CreateInitialState can return, over those releases
InitialStates(players, enemies, sd) ==
    {State(1, players \o enemies, [i \in 1..Len(sorted) |-> sorted[i].id], 0, FALSE, Nil) :
        sorted \in SortOutcomes(Initiatives(players \o enemies, sd))}

\* mutant: the turn order is the roster order
CreateInitialState_unsorted(players, enemies, sd) ==
    State(1, players \o enemies,
          [i \in 1..Len(players \o enemies) |-> (players \o enemies)[i].id], 0, FALSE, Nil)

CreateInitialState(players, enemies, sd) ==
    LET allCharacters == players \o enemies
        initiatives == [i \in 1..Len(allCharacters) |->
                           [id |-> allCharacters[i].id,
                            initiative |-> allCharacters[i].stats.speed
                                           + RollD20([stream |-> sd, pos |-> i - 1])]]
        sorted == SortByInitiative(initiatives)
    IN State(1, allCharacters, [i \in 1..Len(sorted) |-> sorted[i].id], 0, FALSE, Nil)

----------------------------------------------------------------------------
(* The encounters explored.  createTestCharacter is the character of the   *)
(* Go tests; the others vary defense around the reset threshold, speed     *)
(* around the flee threshold, and the content and order of the inventory.  *)

createTestCharacter(id, isPlayer, name) ==
    Character(id, name, isPlayer, Stat(30, 30, 15, 3, 4),
              <<Weapon(id \o "-w", "Test Weapon", 6, 85)>>,
              <<Ability(id \o "-a", "Test Ability", 3, "damage", 8)>>,
              <<Item(id \o "-i", "HealthPotion")>>)

\* the enemy of TestFullGameFlow and of the concrete attack scenario: hp 15,
\* defense 2, here without equipment
Goblin ==
    Character("goblin", "Goblin", FALSE, Stat(15, 15, 15, 2, 4), <<>>, <<>>, <<>>)

Rogue ==
    Character("rogue", "Rogue", TRUE, Stat(5, 30, 0, 4, 14),
              <<>>,
              <<Ability("mend", "Mend", 2, "heal", 0)>>,
              <<Item("rock", "Rock"), Item("tonic", "Potion")>>)

Bat ==
    Character("bat", "Bat", FALSE, Stat(4, 4, 13, 7, 0),
              <<>>,
              <<Ability("ward", "Ward", 1, "buff", 0)>>,
              <<Item("vial", "Potion"), Item("spud", "Potato")>>)

\* small characters for whole encounters: hp of at most 3
Fighter(abilities) ==
    Character("fighter", "Fighter", TRUE, Stat(3, 3, 15, 3, 4),
              <<Weapon("sword", "Sword", 6, 85)>>, abilities, <<>>)

Grunt ==
    Character("grunt", "Grunt", FALSE, Stat(3, 3, 15, 2, 4), <<>>, <<>>, <<>>)

Healer ==
    Character("healer", "Healer", TRUE, Stat(1, 3, 0, 6, 14), <<>>,
              <<Ability("mend", "Mend", 2, "heal", 0)>>, <<>>)

Packrat ==
    Character("packrat", "Packrat", FALSE, Stat(2, 3, 0, 7, 0), <<>>, <<>>,
              <<Item("rock", "Rock"), Item("tonic", "Potion")>>)

Plain(id, isPlayer, name, defense) ==
    Character(id, name, isPlayer, Stat(1, 1, 15, defense, 1), <<>>, <<>>, <<>>)

Duel == [players |-> <<Fighter(<<Ability("smite", "Smite", 3, "damage", 0)>>)>>,
         enemies |-> <<Grunt>>]

Camp == [players |-> <<Healer>>, enemies |-> <<Packrat>>]

Trio ==
    [players |-> <<Plain("knight", TRUE, "Knight", 5), Plain("squire", TRUE, "Squire", 6)>>,
     enemies |-> <<Plain("slime", FALSE, "Slime", 2)>>]

EncounterRosters == {Duel, Camp, Trio}

Rosters ==
    {[players |-> <<createTestCharacter("hero", TRUE, "Hero")>>, enemies |-> <<Goblin>>],
     [players |-> <<Rogue>>, enemies |-> <<Bat>>]}

\* the seeds: every stream of n raw values, n the draws a call can make
Seeds(n) == [1..n -> RawVals]

----------------------------------------------------------------------------
(* The caller: one encounter, every action and seed it may choose *)

CharacterIDs == {state.characters[i].id : i \in 1..Len(state.characters)}

WeaponIDs ==
    UNION {{state.characters[i].weapons[j].id : j \in 1..Len(state.characters[i].weapons)} :
           i \in 1..Len(state.characters)}

AbilityIDs ==
    UNION {{state.characters[i].abilities[j].id : j \in 1..Len(state.characters[i].abilities)} :
           i \in 1..Len(state.characters)}

ItemIDs ==
    UNION {{initial.characters[i].items[j].id : j \in 1..Len(initial.characters[i].items)} :
           i \in 1..Len(initial.characters)}

\* turn advances since the last successful use of each ability, counted up to
\* the ability's cooldown; -1 before its first use
NeverUsed == 0 - 1

AbilityKeys(st) ==
    UNION {{<<i, st.characters[i].abilities[j].id>> : j \in 1..Len(st.characters[i].abilities)} :
           i \in 1..Len(st.characters)}

AbilityOf(st, key) ==
    st.characters[key[1]].abilities[IndexOfID(st.characters[key[1]].abilities, key[2])]

\* the last call was an Ability action that took effect
AbilityUsed(ev) == Len(ev) > 0 /\ ev[1].type = "ability_used"

NextSinceUse(st, act, r) ==
    [key \in DOMAIN sinceUse |->
        IF AbilityUsed(r.events) /\ st.characters[key[1]].id = act.actor /\ key[2] = act.ability
        THEN 0
        ELSE IF r.advanced /\ sinceUse[key] # NeverUsed
        THEN Min(sinceUse[key] + 1, AbilityOf(st, key).cooldown)
        ELSE sinceUse[key]]

\* the goroutines that call into the session layer
Goroutines == {"g1", "g2"}

\* the state before the first call, for the encounter of one roster
\* NewStateManager, NewMemoryEventStore / NewEventStore: nothing stored yet
EmptyStore(be) ==
    /\ stateManager = <<>>
    /\ sessions = <<>>
    /\ snapshots = <<>>
    /\ eventLog = <<>>
    /\ backend = be
    /\ served = 0
    /\ mu = [writer |-> {}, readers |-> {}]
    /\ routines = [g \in Goroutines |-> [pc |-> "idle"]]

\* a caller that holds the State st
StartFrom(st, md, hz) ==
    /\ initial = st
    /\ state = initial
    /\ arg = initial
    /\ argMem = initial
    /\ action = Action("", NoID, NoID, NoID, NoID, NoID, NoID)
    /\ events = <<>>
    /\ logs = <<>>
    /\ advanced = FALSE
    /\ sinceUse = [key \in AbilityKeys(initial) |-> NeverUsed]
    /\ horizon = hz
    /\ panicked = FALSE
    /\ mode = md
    /\ calls = 0

Start(roster, sd, md, hz) ==
    /\ StartFrom(CreateInitialState(roster.players, roster.enemies, sd), md, hz)
    /\ EmptyStore("memory")

\* a few calls, each kept with its argument and Resolution
Init ==
    \E roster \in Rosters : \E sd \in Seeds(Len(roster.players) + Len(roster.enemies)) :
        Start(roster, sd, "calls", RoundCap)

\* the caller makes another call
Ready ==
    /\ ~panicked
    /\ state.round < horizon
    /\ mode \in {"calls", "history"} => calls < MaxCalls
    /\ mode = "roster" => calls < 1

\* one call r = ApplyAction(state, act, sd), the caller keeping r.State
Resolve(act, sd) ==
    /\ \E r \in {ApplyAction(state, act, sd)} :
          /\ state' = IF r.panic THEN state ELSE r.state
          /\ panicked' = r.panic
          /\ sinceUse' = NextSinceUse(state, act, r)
          /\ calls' = IF mode \in {"calls", "roster", "history"} THEN calls + 1
                       ELSE IF mode = "policy" THEN (calls + 1) % 2 ELSE calls
          /\ advanced' = IF mode # "encounter" THEN r.advanced ELSE advanced
          /\ IF mode = "calls"
             THEN /\ arg' = state
                  /\ argMem' = r.argMem
                  /\ action' = act
                  /\ events' = IF r.panic THEN <<>> ELSE r.events
                  /\ logs' = IF r.panic THEN <<>> ELSE r.logs
             ELSE IF mode = "history"
             THEN /\ events' = IF r.panic THEN events ELSE events \o r.events
                  /\ UNCHANGED <<arg, argMem, action, logs>>
             ELSE UNCHANGED <<arg, argMem, action, events, logs>>
    /\ UNCHANGED <<initial, horizon, mode>>
    /\ UNCHANGED storeVars

DoAttack ==
    /\ Ready
    /\ \E attacker \in CharacterIDs \cup {"ghost"}, target \in CharacterIDs \cup {NoID},
          weapon \in WeaponIDs \cup {NoID}, sd \in Seeds(2) :
           Resolve(Action("Attack", attacker, target, weapon, NoID, NoID, NoID), sd)

DoDefend ==
    /\ Ready
    /\ \E actor \in CharacterIDs \cup {"ghost"}, sd \in Seeds(0) :
           Resolve(Action("Defend", NoID, NoID, NoID, actor, NoID, NoID), sd)

DoAbility ==
    /\ Ready
    /\ \E actor \in CharacterIDs \cup {"ghost"}, ability \in AbilityIDs \cup {NoID},
          target \in CharacterIDs \cup {NoID}, sd \in Seeds(1) :
           Resolve(Action("Ability", NoID, target, NoID, actor, ability, NoID), sd)

DoUseItem ==
    /\ Ready
    /\ \E actor \in CharacterIDs \cup {"ghost"}, item \in ItemIDs \cup {NoID}, sd \in Seeds(1) :
           Resolve(Action("UseItem", NoID, NoID, NoID, actor, NoID, item), sd)

DoFlee ==
    /\ Ready
    /\ \E actor \in CharacterIDs \cup {"ghost"}, sd \in Seeds(1) :
           Resolve(Action("Flee", NoID, NoID, NoID, actor, NoID, NoID), sd)

\* an action of a kind ApplyAction does not know
DoOther ==
    /\ Ready
    /\ \E actor \in CharacterIDs \cup {"ghost"}, sd \in Seeds(0) :
           Resolve(Action("Dance", actor, NoID, NoID, actor, NoID, NoID), sd)

Next == DoAttack \/ DoDefend \/ DoAbility \/ DoUseItem \/ DoFlee \/ DoOther

Spec == Init /\ [][Next]_vars

\* a few calls, the caller keeping the events of them all, as the event log
\* of a session does
HistorySpec ==
    /\ \E roster \in Rosters \cup {Trio} :
           \E sd \in Seeds(Len(roster.players) + Len(roster.enemies)) :
               Start(roster, sd, "history", RoundCap)
    /\ [][Next]_vars

\* whole encounters: any number of calls until the round reaches MaxRound,
\* nothing kept of a call but the State it returns
EncounterInit ==
    \E roster \in EncounterRosters :
        \E sd \in Seeds(Len(roster.players) + Len(roster.enemies)) :
            Start(roster, sd, "encounter", MaxRound)

EncounterSpec == EncounterInit /\ [][Next]_vars

\* an encounter driven up to the round cap of CheckCombatEnd by a caller that
\* goes on calling ApplyAction, with whatever action and seed, as long as it can
PolicyRoster ==
    [players |-> <<Plain("knight", TRUE, "Knight", 5)>>,
     enemies |-> <<Plain("slime", FALSE, "Slime", 2)>>]

PolicyInit == \E sd \in Seeds(2) : Start(PolicyRoster, sd, "policy", RoundCap)

PolicySpec == PolicyInit /\ [][Next]_vars /\ WF_vars(Next)

\* POST /tools/apply_action takes the State from the request body: a map the
\* JSON leaves out or gives as null is decoded as a nil map
NilMap == [isNil |-> TRUE, kv |-> <<>>]

\* the states a client submits: one built by CreateInitialState, the same with
\* no abilityCooldowns in its characters, the same with an empty turnOrder
Submitted(st) ==
    {st,
     [st EXCEPT !.characters = [i \in 1..Len(st.characters) |->
                                   [st.characters[i] EXCEPT !.abilityCooldowns = NilMap]]],
     [st EXCEPT !.turnOrder = <<>>]}

\* the state before the first call, for the encounter a client submits as st
SubmitInit ==
    \E roster \in Rosters : \E sd \in Seeds(Len(roster.players) + Len(roster.enemies)) :
        \E st \in Submitted(CreateInitialState(roster.players, roster.enemies, sd)) :
            StartFrom(st, "calls", RoundCap) /\ EmptyStore("memory")

\* a few calls on a submitted state
SubmitSpec == SubmitInit /\ [][Next]_vars

\* a party of seven, all of speed 1: every equal pair of rolls is a tie
Band ==
    [players |-> <<Plain("knight", TRUE, "Knight", 5), Plain("squire", TRUE, "Squire", 6),
                   Plain("page", TRUE, "Page", 7), Plain("monk", TRUE, "Monk", 5)>>,
     enemies |-> <<Plain("slime", FALSE, "Slime", 2), Plain("rat", FALSE, "Rat", 6),
                   Plain("crow", FALSE, "Crow", 7)>>]

RosterInit ==
    \E sd \in Seeds(Len(Band.players) + Len(Band.enemies)) :
        \E st \in InitialStates(Band.players, Band.enemies, sd) :
            StartFrom(st, "roster", RoundCap) /\ EmptyStore("memory")

\* one call on the initial State of a large party
RosterSpec == RosterInit /\ [][Next]_vars

----------------------------------------------------------------------------
(* The session layer: StateManager, the event store and the HTTP handlers *)

\* the session ids clients choose, and the ids uuid.New() returns
ClientIDs == {"s1"}

UUIDs == {"u1"}

SessionIDs == ClientIDs \cup UUIDs

Backends == {"memory", "sqlite"}

Session(id, name, status) == [id |-> id, name |-> name, status |-> status]

Snapshot(id, sessionID, round, stateData) ==
    [id |-> id, sessionID |-> sessionID, round |-> round, stateData |-> stateData]

StoredEvent(sessionID, round, seq, event) ==
    [sessionID |-> sessionID, round |-> round, seq |-> seq, event |-> event]

\* StateManager.GetState: the State and whether it exists
HasState(sm, sessionID) == sessionID \in DOMAIN sm

\* StateManager.SetState
SetState(sm, sessionID, st) ==
    [sid \in DOMAIN sm \cup {sessionID} |-> IF sid = sessionID THEN st ELSE sm[sid]]

\* the index of the first session with this id, 0 when there is none
SessionIndex(ss, sessionID) == IndexOfID(ss, sessionID)

\* CreateSession returns an error: the sessions table of the sqlite store
\* has id as its primary key, the memory store appends whatever it is given
CreateSessionFails(ss, sessionID) ==
    backend = "sqlite" /\ SessionIndex(ss, sessionID) # 0

CreateSession(ss, sessionID, name) == Append(ss, Session(sessionID, name, "active"))

\* AppendEvents: one row per event, numbered by the length of the log
AppendEvents(log, sessionID, round, evs) ==
    log \o [i \in 1..Len(evs) |-> StoredEvent(sessionID, round, Len(log) + i - 1, evs[i])]

\* SaveSnapshot: always one more row, the State stored as its JSON
SaveSnapshot(snaps, sessionID, round, st) ==
    Append(snaps, Snapshot(Len(snaps), sessionID, round, deepCopyState(st).state))

\* UpdateSessionStatus: the status of the first session with this id
UpdateSessionStatus(ss, sessionID, status) ==
    [i \in 1..Len(ss) |->
        IF i = SessionIndex(ss, sessionID) THEN [ss[i] EXCEPT !.status = status] ELSE ss[i]]

\* GetCurrentCharacter: the index of the character whose turn it is, 0 for nil
GetCurrentCharacter(st) ==
    IF st.currentTurn >= Len(st.turnOrder) THEN 0
    ELSE IndexOfID(st.characters, st.turnOrder[st.currentTurn + 1])

\* handleGameAction: the id of the first living enemy, "" when there is none
firstTarget(st) ==
    IF AliveEnemies(st.characters) = {} THEN NoID
    ELSE st.characters[CHOOSE i \in AliveEnemies(st.characters) :
                           \A j \in AliveEnemies(st.characters) : i <= j].id

\* handleGameAction: the id of the character's first weapon, "" without one
firstWeapon(character) ==
    IF Len(character.weapons) > 0 THEN character.weapons[1].id ELSE NoID

\* the action names a game page posts, and one the handler does not know
ActionNames == {"attack", "defend", "flee", "dance"}

\* the actions an API client posts to /tools/apply_action
PostedNames == {"defend", "flee"}

\* handleGameAction answers 400 without resolving anything
Refused(st, name) ==
    \/ GetCurrentCharacter(st) = 0
    \/ name \notin {"attack", "defend", "flee"}
    \/ name = "attack" /\ firstTarget(st) = NoID

\* handleGameAction: the Action built for the current character
actionOf(st, name, character) ==
    IF name = "attack"
    THEN Action("Attack", character.id, firstTarget(st), firstWeapon(character),
                NoID, NoID, NoID)
    ELSE IF name = "defend"
    THEN Action("Defend", NoID, NoID, NoID, character.id, NoID, NoID)
    ELSE Action("Flee", NoID, NoID, NoID, character.id, NoID, NoID)

\* the scenario a game is started from
Scenario == [name |-> "Alley", players |-> <<Rogue>>, enemies |-> <<Bat>>]

\* ConvertScenarioToState: the same initiative rolls and ordering as
\* CreateInitialState, every character with an empty cooldown map
ConvertScenarioToState(scenario, sd) ==
    CreateInitialState(scenario.players, scenario.enemies, sd)

\* the seeds of the requests: every roll low, or every roll high
SessionSeeds == {sd \in Seeds(2) : sd[1] = sd[2]}

\* the States of encounters just started
FreshStates == {ConvertScenarioToState(Scenario, sd) : sd \in Seeds(2)}

\* the States a client posts under a session id: a fresh encounter, or the
\* State the server holds for that session
ClientStates(header) ==
    FreshStates \cup (IF HasState(stateManager, header) THEN {stateManager[header]} ELSE {})

\* uuid.New(): an id nothing was stored under yet
FreshIDs ==
    {sid \in UUIDs :
        /\ ~HasState(stateManager, sid)
        /\ SessionIndex(sessions, sid) = 0}

\* the event store holds at most MaxStored rows after the request
Within == Len(sessions') + Len(snapshots') + Len(eventLog') <= MaxStored

\* the response is written; the combat core's caller is not involved
Respond ==
    /\ served' = (served + 1) % 2
    /\ UNCHANGED <<coreVars, backend, mu, routines>>

\* a 4xx response: nothing is stored
Reject ==
    /\ Respond
    /\ UNCHANGED <<stateManager, sessions, snapshots, eventLog>>

\* handleApplyAction, handleGameAction: the Resolution r of a call on the
\* State before is stored under sessionID
Persist(sessionID, before, r) ==
    /\ stateManager' = SetState(stateManager, sessionID, r.state)
    /\ eventLog' = AppendEvents(eventLog, sessionID, r.state.round, r.events)
    /\ snapshots' = IF r.state.round > before.round
                    THEN SaveSnapshot(snapshots, sessionID, r.state.round, r.state)
                    ELSE snapshots
    /\ UNCHANGED sessions
    /\ Within
    /\ Respond

\* POST /tools/apply_action with a seed
applyActionRequest(header, st, act, sd) ==
    \E r \in {ApplyAction(st, act, sd)} :
        /\ ~r.panic
        /\ \E sessionID \in (IF header = NoID THEN FreshIDs ELSE {header}) :
               Persist(sessionID, st, r)

\* POST /tools/apply_action: seeded is FALSE when the body has no seed
handleApplyAction ==
    \E header \in ClientIDs \cup {NoID}, name \in PostedNames,
       seeded \in BOOLEAN, sd \in SessionSeeds : \E st \in ClientStates(header) :
        IF ~seeded
        THEN Reject
        ELSE /\ ~Refused(st, name)
             /\ applyActionRequest(header, st,
                                   actionOf(st, name, st.characters[GetCurrentCharacter(st)]),
                                   sd)

\* POST /sessions
handleCreateSession ==
    \E sessionID \in ClientIDs \cup {NoID}, st \in FreshStates :
        IF sessionID = NoID \/ st.round = 0
        THEN Reject
        ELSE /\ stateManager' = SetState(stateManager, sessionID, st)
             /\ IF CreateSessionFails(sessions, sessionID)
                THEN UNCHANGED <<sessions, snapshots>>
                ELSE /\ sessions' = CreateSession(sessions, sessionID, <<"Session ", sessionID>>)
                     /\ snapshots' = SaveSnapshot(snapshots, sessionID, st.round, st)
             /\ UNCHANGED eventLog
             /\ Within
             /\ Respond

\* POST /game/:sessionId/action, the seed taken from the clock
handleGameAction ==
    \E sessionID \in SessionIDs, name \in ActionNames, sd \in SessionSeeds :
        IF ~HasState(stateManager, sessionID)
        THEN Reject
        ELSE IF Refused(stateManager[sessionID], name)
        THEN Reject
        ELSE \E st \in {stateManager[sessionID]} :
                 \E r \in {ApplyAction(st,
                                       actionOf(st, name,
                                                st.characters[GetCurrentCharacter(st)]),
                                       sd)} :
                     /\ ~r.panic
                     /\ Persist(sessionID, st, r)

\* POST /game/start, the seed taken from the clock; named is FALSE when the
\* form has no scenario name
handleStartGame ==
    \E named \in BOOLEAN, sd \in SessionSeeds :
        IF ~named
        THEN Reject
        ELSE \E sessionID \in FreshIDs :
                 \E st \in {ConvertScenarioToState(Scenario, sd)} :
                     /\ stateManager' = SetState(stateManager, sessionID, st)
                     /\ sessions' = CreateSession(sessions, sessionID, Scenario.name)
                     /\ snapshots' = SaveSnapshot(snapshots, sessionID, st.round, st)
                     /\ UNCHANGED eventLog
                     /\ Within
                     /\ Respond

SessionInit ==
    \E be \in Backends :
        /\ StartFrom(State(1, <<>>, <<>>, 0, FALSE, Nil), "session", RoundCap)
        /\ EmptyStore(be)

SessionNext ==
    \/ handleCreateSession
    \/ handleStartGame
    \/ handleApplyAction
    \/ handleGameAction

\* the server goes on answering requests
SessionSpec == SessionInit /\ [][SessionNext]_vars /\ WF_vars(SessionNext)

----------------------------------------------------------------------------
(* The StateManager under concurrent callers *)

\* the methods that take mu.Lock(); GetState and GetStateCount take mu.RLock()
Writers == {"SetState", "DeleteState"}

\* the zero value of State, what a map read of a missing key yields
ZeroState == State(0, <<>>, <<>>, 0, FALSE, Nil)

\* StateManager.GetState: (state, exists)
GetState(sm, sessionID) ==
    IF HasState(sm, sessionID)
    THEN [state |-> sm[sessionID], exists |-> TRUE]
    ELSE [state |-> ZeroState, exists |-> FALSE]

\* mu.Lock() and mu.RLock() return once no writer holds the mutex and, for
\* Lock, no reader either
CanLock_open(m, method) == TRUE

CanLock(m, method) ==
    /\ m.writer = {}
    /\ method \in Writers => m.readers = {}

\* the outcomes of the method's statement on sm.states: the statement's own
\* (SetState stores, DeleteState deletes, GetState and GetStateCount read).
\* Were another goroutine at its statement too, one of the two writing, the
\* data race could also end in the runtime's fatal "concurrent map" error, a
\* lost write or a read of the zero value
accessOutcomes(g) ==
    LET call == routines[g]
        mapAfter == IF call.method = "SetState"
                    THEN SetState(stateManager, call.sessionID, call.state)
                    ELSE IF call.method = "DeleteState"
                    THEN [sid \in DOMAIN stateManager \ {call.sessionID} |->
                             stateManager[sid]]
                    ELSE stateManager
        resultOf(sm) == IF call.method = "GetState" THEN GetState(sm, call.sessionID)
                        ELSE IF call.method = "GetStateCount"
                        THEN [count |-> Cardinality(DOMAIN sm)]
                        ELSE <<>>
        racing == \E h \in Goroutines \ {g} :
                      /\ routines[h].pc = "locked"
                      /\ call.method \in Writers \/ routines[h].method \in Writers
    IN {[sm |-> mapAfter, result |-> resultOf(stateManager), fatal |-> FALSE]}
       \cup (IF racing
             THEN {[sm |-> m, result |-> resultOf(<<>>), fatal |-> f] :
                       m \in {stateManager, mapAfter}, f \in BOOLEAN}
             ELSE {})

\* a goroutine calls a method, with the States the tests store: no
\* characters, told apart by their round
Call(g) ==
    /\ mode = "manager"
    /\ ~panicked
    /\ routines[g].pc = "idle"
    /\ \E method \in Writers \cup {"GetState", "GetStateCount"},
          sessionID \in SessionIDs, r \in 1..2 :
           routines' = [routines EXCEPT ![g] =
               [pc |-> "lock", method |-> method,
                sessionID |-> IF method = "GetStateCount" THEN NoID ELSE sessionID,
                state |-> IF method = "SetState"
                          THEN State(r, <<>>, <<>>, 0, FALSE, Nil) ELSE ZeroState]]
    /\ UNCHANGED <<coreVars, stateManager, sessions, snapshots, eventLog, backend,
                   served, mu>>

\* sm.mu.Lock() or sm.mu.RLock() returns
Lock(g) ==
    /\ mode = "manager"
    /\ ~panicked
    /\ routines[g].pc = "lock"
    /\ CanLock(mu, routines[g].method)
    /\ mu' = IF routines[g].method \in Writers
             THEN [mu EXCEPT !.writer = {g}]
             ELSE [mu EXCEPT !.readers = @ \cup {g}]
    /\ routines' = [routines EXCEPT ![g].pc = "locked"]
    /\ UNCHANGED <<coreVars, stateManager, sessions, snapshots, eventLog, backend,
                   served>>

\* the method's statement on sm.states
Access(g) ==
    /\ mode = "manager"
    /\ ~panicked
    /\ routines[g].pc = "locked"
    /\ \E out \in accessOutcomes(g) :
           /\ stateManager' = out.sm
           /\ routines' = [routines EXCEPT ![g] =
                  [pc |-> "unlock", method |-> @.method, sessionID |-> @.sessionID,
                   state |-> @.state, result |-> out.result]]
           /\ panicked' = out.fatal
    /\ UNCHANGED <<mu, sessions, snapshots, eventLog, backend, served>>
    /\ UNCHANGED <<state, initial, arg, argMem, action, events, logs, advanced,
                   sinceUse, horizon, mode, calls>>

\* the deferred mu.Unlock() or mu.RUnlock() runs and the method returns
Unlock(g) ==
    /\ mode = "manager"
    /\ ~panicked
    /\ routines[g].pc = "unlock"
    /\ mu' = [writer |-> mu.writer \ {g}, readers |-> mu.readers \ {g}]
    /\ routines' = [routines EXCEPT ![g] = [pc |-> "idle"]]
    /\ UNCHANGED <<coreVars, stateManager, sessions, snapshots, eventLog, backend,
                   served>>

ManagerInit ==
    /\ StartFrom(ZeroState, "manager", RoundCap)
    /\ EmptyStore("memory")

ManagerNext ==
    \E g \in Goroutines :
        \/ Call(g)
        \/ Lock(g)
        \/ Access(g)
        \/ Unlock(g)

ManagerSpec == ManagerInit /\ [][ManagerNext]_vars

----------------------------------------------------------------------------
(* The action handlers, statement by statement, one goroutine per request *)

\* the outcomes of a write to the event store: TRUE when it returns nil.  Only
\* the sqlite store's writes return errors, its AppendEvents only when there
\* is an event to insert, and a failed transaction inserts nothing.  The
\* concurrent run is on a store that answers every write
writeOutcomes(rows) ==
    IF mode = "faults" /\ backend = "sqlite" /\ rows > 0 THEN BOOLEAN ELSE {TRUE}

\* the request of goroutine g once it stands at pc with these locals
running(g, pc, handler, sessionID, before, act, r, failed, response) ==
    [routines EXCEPT ![g] =
        [pc |-> pc, handler |-> handler, sessionID |-> sessionID, before |-> before,
         action |-> act, events |-> r.events, state |-> r.state, logs |-> r.logs,
         failed |-> failed, response |-> response]]

\* a request arrives and its handler has the State to resolve: the one
\* GetState returns for handleGameAction, the one of the body for
\* handleApplyAction; or the handler answers 4xx.  In mode "faults" requests
\* come one at a time
Read(g) ==
    /\ mode \in {"requests", "faults"}
    /\ routines[g].pc \in {"idle", "done"}
    /\ calls < MaxCalls
    /\ mode = "faults" => \A h \in Goroutines : routines[h].pc \in {"idle", "done"}
    /\ calls' = calls + 1
    /\ \E handler \in {"handleGameAction", "handleApplyAction"},
          sessionID \in SessionIDs, name \in ActionNames, seeded \in BOOLEAN :
        \E st \in (IF handler = "handleGameAction"
                   THEN {GetState(stateManager, sessionID).state}
                   ELSE ClientStates(sessionID)) :
            LET none == Action("", NoID, NoID, NoID, NoID, NoID, NoID)
                nothing == [events |-> <<>>, state |-> st, logs |-> <<>>]
            IN IF handler = "handleGameAction"
               THEN /\ seeded
                    /\ routines' =
                           IF ~HasState(stateManager, sessionID)
                           THEN running(g, "done", handler, sessionID, st, none, nothing,
                                        FALSE, [status |-> 404])
                           ELSE IF Refused(st, name)
                           THEN running(g, "done", handler, sessionID, st, none, nothing,
                                        FALSE, [status |-> 400])
                           ELSE running(g, "apply", handler, sessionID, st,
                                        actionOf(st, name,
                                                 st.characters[GetCurrentCharacter(st)]),
                                        nothing, FALSE, [status |-> 0])
               ELSE /\ sessionID \in ClientIDs
                    /\ name \in PostedNames
                    /\ ~Refused(st, name)
                    /\ routines' =
                           IF ~seeded
                           THEN running(g, "done", handler, sessionID, st, none, nothing,
                                        FALSE, [status |-> 400])
                           ELSE running(g, "apply", handler, sessionID, st,
                                        actionOf(st, name,
                                                 st.characters[GetCurrentCharacter(st)]),
                                        nothing, FALSE, [status |-> 0])
    /\ UNCHANGED <<state, initial, arg, argMem, action, events, logs, advanced,
                   sinceUse, horizon, panicked, mode>>
    /\ UNCHANGED <<stateManager, sessions, snapshots, eventLog, backend, served, mu>>

\* resolution := ApplyAction(state, action, seed)
Apply(g) ==
    /\ mode \in {"requests", "faults"}
    /\ routines[g].pc = "apply"
    /\ \E sd \in SessionSeeds :
        \E r \in {ApplyAction(routines[g].before, routines[g].action, sd)} :
            /\ ~r.panic
            /\ routines' = running(g, "store", routines[g].handler,
                                   routines[g].sessionID, routines[g].before,
                                   routines[g].action, r, FALSE, [status |-> 0])
    /\ UNCHANGED <<coreVars, stateManager, sessions, snapshots, eventLog, backend,
                   served, mu>>

\* stateManager.SetState(sessionID, resolution.State)
Store(g) ==
    /\ mode \in {"requests", "faults"}
    /\ routines[g].pc = "store"
    /\ stateManager' = SetState(stateManager, routines[g].sessionID, routines[g].state)
    /\ routines' = [routines EXCEPT ![g].pc = "append", ![g].failed = FALSE,
                                    ![g].response = [status |-> 0]]
    /\ UNCHANGED <<coreVars, sessions, snapshots, eventLog, backend, served, mu>>

\* eventStore.AppendEvents(sessionID, round, resolution.Events), an error
\* only logged
AppendLog(g) ==
    /\ mode \in {"requests", "faults"}
    /\ routines[g].pc = "append"
    /\ \E ok \in writeOutcomes(Len(routines[g].events)) :
           /\ eventLog' = IF ok
                          THEN AppendEvents(eventLog, routines[g].sessionID,
                                            routines[g].state.round, routines[g].events)
                          ELSE eventLog
           /\ routines' = [routines EXCEPT ![g].pc = "reply", ![g].failed = ~ok,
                                    ![g].response = [status |-> 0]]
    /\ UNCHANGED <<coreVars, stateManager, sessions, snapshots, backend, served, mu>>

\* what the handler answers with: handleApplyAction the Resolution,
\* handleGameAction success and the Resolution's logs
responseOf_failing(call, failed) ==
    IF failed THEN [status |-> 500]
    ELSE IF call.handler = "handleApplyAction"
    THEN [status |-> 200, events |-> call.events, state |-> call.state, logs |-> call.logs]
    ELSE [status |-> 200, success |-> TRUE, logs |-> call.logs]

responseOf(call, failed) ==
    IF call.handler = "handleApplyAction"
    THEN [status |-> 200, events |-> call.events, state |-> call.state, logs |-> call.logs]
    ELSE [status |-> 200, success |-> TRUE, logs |-> call.logs]

\* eventStore.SaveSnapshot when the round went up, an error only logged, and
\* the response
Reply(g) ==
    /\ mode \in {"requests", "faults"}
    /\ routines[g].pc = "reply"
    /\ \E ok \in writeOutcomes(IF routines[g].state.round > routines[g].before.round
                               THEN 1 ELSE 0) :
           /\ snapshots' = IF ok /\ routines[g].state.round > routines[g].before.round
                           THEN SaveSnapshot(snapshots, routines[g].sessionID,
                                             routines[g].state.round, routines[g].state)
                           ELSE snapshots
           /\ routines' = [routines EXCEPT
                  ![g].pc = "done",
                  ![g].failed = @ \/ ~ok,
                  ![g].response = responseOf(routines[g], routines[g].failed \/ ~ok)]
    /\ served' = (served + 1) % 2
    /\ UNCHANGED <<coreVars, stateManager, sessions, eventLog, backend, mu>>

\* a server on which handleStartGame has started one game
Serving(md) ==
    \E be \in Backends, sessionID \in UUIDs :
        \E st \in FreshStates :
            /\ StartFrom(st, md, RoundCap)
            /\ stateManager = SetState(<<>>, sessionID, st)
            /\ sessions = CreateSession(<<>>, sessionID, Scenario.name)
            /\ snapshots = SaveSnapshot(<<>>, sessionID, st.round, st)
            /\ eventLog = <<>>
            /\ backend = be
            /\ served = 0
            /\ mu = [writer |-> {}, readers |-> {}]
            /\ routines = [g \in Goroutines |-> [pc |-> "idle"]]

RequestNext ==
    \E g \in Goroutines :
        \/ Read(g)
        \/ Apply(g)
        \/ Store(g)
        \/ AppendLog(g)
        \/ Reply(g)

\* requests handled concurrently
RequestSpec == Serving("requests") /\ [][RequestNext]_vars

\* requests handled one at a time on a store whose writes can fail
FaultSpec == Serving("faults") /\ [][RequestNext]_vars

----------------------------------------------------------------------------
(* The event store's queries, MemoryEventStore and the sqlite EventStore *)

\* GetEvents, the events it returns in their order.  The sqlite store
\* selects the rows of the session with round >= fromRound, ordered by round
\* and then by row id.  The memory store returns, in insertion order, every
\* event whose ID, the text "<session>-<round>-<index>" AppendEvents gave it,
\* is longer than sessionID and starts with it; fromRound is not looked at
GetEvents(log, be, sessionID, fromRound) ==
    LET digits == <<"0", "1", "2", "3", "4", "5", "6", "7", "8", "9">>
        idOf(row) == Chars[row.sessionID] \o <<"-", digits[row.round + 1], "-",
                                               digits[row.seq + 1]>>
        wanted == Chars[sessionID]
        kept(row) == IF be = "memory"
                     THEN /\ Len(idOf(row)) > Len(wanted)
                          /\ SubSeq(idOf(row), 1, Len(wanted)) = wanted
                     ELSE row.sessionID = sessionID /\ row.round >= fromRound
        rows == SelectSeq(log, kept)
        rank(i) == Cardinality({j \in 1..Len(rows) :
                       \/ rows[j].round < rows[i].round
                       \/ rows[j].round = rows[i].round /\ j <= i})
    IN [k \in 1..Len(rows) |->
           IF be = "memory" THEN rows[k].event
           ELSE rows[CHOOSE i \in 1..Len(rows) : rank(i) = k].event]

\* GetLatestSnapshot, the (*State, found) it can return, found FALSE for the
\* nil it returns when the session has no snapshot.  The
\* memory store keeps the first snapshot of the session's greatest round;
\* the sqlite store orders by round only, so any snapshot of that round can
\* be the row it returns
GetLatestSnapshot(snaps, be, sessionID) ==
    LET mine == {i \in 1..Len(snaps) : snaps[i].sessionID = sessionID}
        top == {i \in mine : \A j \in mine : snaps[j].round <= snaps[i].round}
    IN IF mine = {} THEN {[state |-> ZeroState, found |-> FALSE]}
       ELSE IF be = "memory"
       THEN {[state |-> snaps[CHOOSE i \in top : \A j \in top : i <= j].stateData,
              found |-> TRUE]}
       ELSE {[state |-> snaps[i].stateData, found |-> TRUE] : i \in top}

\* GetSnapshotAtRound, the (*State, found) it can return.  The
\* memory store returns the first snapshot of the session, in insertion
\* order, whose round is <= round; the sqlite store a snapshot of the
\* greatest such round
GetSnapshotAtRound(snaps, be, sessionID, round) ==
    LET mine == {i \in 1..Len(snaps) :
                    snaps[i].sessionID = sessionID /\ snaps[i].round <= round}
        top == {i \in mine : \A j \in mine : snaps[j].round <= snaps[i].round}
    IN IF mine = {} THEN {[state |-> ZeroState, found |-> FALSE]}
       ELSE IF be = "memory"
       THEN {[state |-> snaps[CHOOSE i \in mine : \A j \in mine : i <= j].stateData,
              found |-> TRUE]}
       ELSE {[state |-> snaps[i].stateData, found |-> TRUE] : i \in top}

\* a caller of the store saves a snapshot of a State, or appends the events
\* of a round, for one of two sessions
StoreNext ==
    /\ mode = "store"
    /\ Len(snapshots) + Len(eventLog) < MaxStored
    /\ \E sessionID \in {"s1", "s12"}, round \in 1..MaxRound :
        \/ /\ \E turn \in 0..1 :
                  snapshots' = SaveSnapshot(snapshots, sessionID, round,
                                            State(round, <<>>, <<>>, turn, FALSE, Nil))
           /\ UNCHANGED eventLog
        \/ /\ \E target \in {"rogue", "bat"} :
                  eventLog' = AppendEvents(eventLog, sessionID, round,
                                  <<Event("damage", target, 1, NoID, NoID, NoID, NoID)>>)
           /\ UNCHANGED snapshots
    /\ UNCHANGED <<coreVars, stateManager, sessions, backend, served, mu, routines>>

\* the event store from its construction on
StoreSpec ==
    /\ StartFrom(ZeroState, "store", RoundCap) /\ EmptyStore("memory")
    /\ [][StoreNext]_vars

----------------------------------------------------------------------------
(* Properties *)

EventsOfType(type) == SelectSeq(events, LAMBDA e : e.type = type)

HasLog(text) == \E i \in 1..Len(logs) : logs[i].text = text

\* a call has been made and kept
Called == mode = "calls" /\ calls > 0

\* the actor of the last call, as an index into the argument's characters
ActorOfCall == GetCharacterByID(arg, getActorID(action))

\* C1: HP bounds - after any sequence of ApplyAction calls of any kind, every
\* character of the resulting state has 0 <= hp <= maxHp
C1_HPBounds ==
    \A i \in 1..Len(state.characters) :
        /\ 0 <= state.characters[i].stats.hp
        /\ state.characters[i].stats.hp <= state.characters[i].stats.maxHp

\* a character has been brought to 0 and another healed up to its maximum
C1_Witness ==
    /\ \E i \in 1..Len(state.characters) : state.characters[i].stats.hp = 0
    /\ \E j \in 1..Len(state.characters) :
           /\ state.characters[j].stats.hp = state.characters[j].stats.maxHp
           /\ initial.characters[j].stats.hp < state.characters[j].stats.hp

\* C3: ApplyAction never mutates its state argument - after the call the
\* memory behind the argument holds the State that was passed in
C3_ArgumentUntouched == argMem = arg

\* a call that consumed an item: the result differs from the argument
C3_Witness ==
    /\ Called
    /\ action.kind = "UseItem"
    /\ Len(EventsOfType("item_used")) = 1
    /\ state.characters # arg.characters

\* C4: every damage event and every heal event of a Resolution has amount >= 1
C4_PositiveAmounts ==
    \A i \in 1..Len(events) :
        events[i].type \in {"damage", "heal"} => events[i].amount >= 1

\* an attack that hit a target whose defense exceeds the rolled damage
C4_Witness ==
    /\ Called
    /\ action.kind = "Attack"
    /\ \E i \in 1..Len(events) : events[i].type = "damage" /\ events[i].amount = 1
    /\ ActorOfCall # 0
    /\ arg.characters[ActorOfCall].stats.attack = 0

\* each character id occurs exactly once in the turn order
IsPermutationOfIDs(st) ==
    /\ Len(st.turnOrder) = Len(st.characters)
    /\ \A i \in 1..Len(st.characters) :
           Cardinality({j \in 1..Len(st.turnOrder) : st.turnOrder[j] = st.characters[i].id}) = 1

CooldownEntry(key) == MapGet(state.characters[key[1]].abilityCooldowns, key[2])

\* C7 as claimed: after a successful use the entry is ability.cooldown, and
\* after N further turn advances max(0, ability.cooldown - N)
C7_Original ==
    \A key \in DOMAIN sinceUse :
        sinceUse[key] # NeverUsed =>
            CooldownEntry(key) = Max(0, AbilityOf(state, key).cooldown - sinceUse[key])

\* C7 as amended: after a successful use the entry is ability.cooldown - 1
\* (floor 0), the turn advance that ends the action having decremented it,
\* and after N further turn advances max(0, ability.cooldown - 1 - N)
C7_Cooldown ==
    \A key \in DOMAIN sinceUse :
        sinceUse[key] # NeverUsed =>
            CooldownEntry(key) = Max(0, AbilityOf(state, key).cooldown - 1 - sinceUse[key])

\* an ability of cooldown 3, one turn advance after the action that used it
C7_Witness ==
    \E key \in DOMAIN sinceUse :
        /\ AbilityOf(state, key).cooldown = 3
        /\ sinceUse[key] = 1
        /\ CooldownEntry(key) = 1

\* the last call was an Attack whose attacker and target exist and for which
\* attacker.attack + 1 >= target.defense + 10
SureHit ==
    /\ Called
    /\ action.kind = "Attack"
    /\ GetCharacterByID(arg, action.attacker) # 0
    /\ GetCharacterByID(arg, action.target) # 0
    /\ arg.characters[GetCharacterByID(arg, action.attacker)].stats.attack + 1
           >= arg.characters[GetCharacterByID(arg, action.target)].stats.defense + HitBase

\* C8: guaranteed hit - such an Attack yields, for every seed, exactly one
\* damage event, of amount >= 1, and no miss log
C8_GuaranteedHit ==
    SureHit =>
        /\ Len(EventsOfType("damage")) = 1
        /\ EventsOfType("damage")[1].amount >= 1
        /\ ~HasLog("%s misses %s!")

\* a sure hit at the boundary attack + 1 = defense + 10
C8_Witness ==
    /\ SureHit
    /\ arg.characters[GetCharacterByID(arg, action.attacker)].stats.attack + 1
           = arg.characters[GetCharacterByID(arg, action.target)].stats.defense + HitBase
    /\ Len(EventsOfType("damage")) = 1

\* C9 as claimed: a Flee by a character of speed >= 14 succeeds, and a Flee
\* that succeeds completes the encounter with the side opposing the fleeing
\* character as winner
C9_FleeWinner ==
    (Called /\ action.kind = "Flee" /\ ActorOfCall # 0) =>
        /\ arg.characters[ActorOfCall].stats.speed >= FleeDC - 1
               => Len(EventsOfType("flee")) = 1
        /\ Len(EventsOfType("flee")) = 1 =>
               /\ state.isComplete
               /\ state.winner = IF arg.characters[ActorOfCall].isPlayer
                                 THEN "enemy" ELSE "player"

\* the last call was a UseItem on an item the actor holds whose name has no
\* "Potion" in it
NonPotionUsed ==
    /\ Called
    /\ action.kind = "UseItem"
    /\ ActorOfCall # 0
    /\ IndexOfID(arg.characters[ActorOfCall].items, action.item) # 0
    /\ ~Contains(Chars[arg.characters[ActorOfCall].items[
                     IndexOfID(arg.characters[ActorOfCall].items, action.item)].name],
                 Chars["Potion"])

\* C10 as claimed: such a UseItem emits exactly one item_used event and no
\* heal event, leaves the actor's hp unchanged and removes the item
C10_NonPotion ==
    NonPotionUsed =>
        /\ Len(EventsOfType("item_used")) = 1
        /\ Len(EventsOfType("heal")) = 0
        /\ state.characters[ActorOfCall].stats.hp = arg.characters[ActorOfCall].stats.hp
        /\ IndexOfID(state.characters[ActorOfCall].items, action.item) = 0

\* C11 as claimed: ApplyAction never panics - for every State a client can
\* submit and every Action, the call returns a Resolution
C11_NeverPanics == ~panicked

\* the last call named a kind ApplyAction knows and an actor the state lacks
ActorNotFound == Called /\ action.kind \in validKinds /\ ActorOfCall = 0

C13_UnknownKind ==
    (Called /\ action.kind \notin validKinds) =>
        /\ events = <<>>
        /\ state = arg
        /\ HasLog("Invalid action kind")

\* the index, among the actor's abilities in the argument, of the ability the
\* last call asked for; 0 when the actor has none such
AbilityOfCall ==
    IF ActorOfCall = 0 THEN 0
    ELSE IndexOfID(arg.characters[ActorOfCall].abilities, action.ability)

\* the abilityCooldowns entry of that ability in the argument
CooldownOfCall ==
    IF action.ability \in DOMAIN arg.characters[ActorOfCall].abilityCooldowns.kv
    THEN arg.characters[ActorOfCall].abilityCooldowns.kv[action.ability]
    ELSE 0

\* the last call asked for an ability of the actor that is on cooldown
OnCooldown ==
    /\ Called
    /\ action.kind = "Ability"
    /\ AbilityOfCall # 0
    /\ CooldownOfCall > 0

\* C14: an Ability whose cooldown entry is > 0 emits no events, logs
\* "<ability> is on cooldown!" and returns a state equal to the input
C14_OnCooldown ==
    OnCooldown =>
        /\ events = <<>>
        /\ \E i \in 1..Len(logs) :
               /\ logs[i].text = "%s is on cooldown!"
               /\ logs[i].a = arg.characters[ActorOfCall].abilities[AbilityOfCall].name
        /\ state = arg

\* an ability is asked for again right after the call that used it
C14_Witness ==
    /\ OnCooldown
    /\ calls = 2
    /\ CooldownOfCall = arg.characters[ActorOfCall].abilities[AbilityOfCall].cooldown - 1

\* the last call was an Attack whose attacker exists and whose target does not
AttackTargetNotFound ==
    /\ Called
    /\ action.kind = "Attack"
    /\ ActorOfCall # 0
    /\ GetCharacterByID(arg, action.target) = 0

\* the last call was a damage Ability, off cooldown, whose target id is empty
\* or absent from the characters
AbilityTargetNotFound ==
    /\ Called
    /\ action.kind = "Ability"
    /\ AbilityOfCall # 0
    /\ CooldownOfCall = 0
    /\ arg.characters[ActorOfCall].abilities[AbilityOfCall].effect = "damage"
    /\ GetCharacterByID(arg, action.target) = 0

\* the last call asked for an ability, or an item, the actor does not have
AbilityNotFound == Called /\ action.kind = "Ability" /\ ActorOfCall # 0 /\ AbilityOfCall = 0

ItemNotFound ==
    /\ Called
    /\ action.kind = "UseItem"
    /\ ActorOfCall # 0
    /\ IndexOfID(arg.characters[ActorOfCall].items, action.item) = 0

\* the log lines that explain a soft failure
FailureTexts ==
    {"Invalid action: character not found", "Invalid action kind", "Unknown action kind",
     "Invalid attack action", "Invalid defend action", "Invalid ability action",
     "Invalid item action", "Invalid flee action", "Ability not found",
     "%s is on cooldown!", "Item not found"}

\* C15 as claimed: every soft failure (actor, target, ability or item not
\* found, ability on cooldown, unknown kind) yields no events and a log line
\* that explains the failure
C15_SoftFailures ==
    (\/ ActorNotFound
     \/ Called /\ action.kind \notin validKinds
     \/ AttackTargetNotFound
     \/ AbilityTargetNotFound
     \/ AbilityNotFound
     \/ OnCooldown
     \/ ItemNotFound) =>
        /\ events = <<>>
        /\ \E i \in 1..Len(logs) : logs[i].text \in FailureTexts

\* the last call was a Defend by a character of the state
Defended == Called /\ action.kind = "Defend" /\ ActorOfCall # 0

\* C16 as claimed: after a Defend the actor's defense in the resulting state
\* is exactly 2 greater than in the input state
C16_DefendRaises ==
    Defended =>
        state.characters[ActorOfCall].stats.defense
            = arg.characters[ActorOfCall].stats.defense + DefendBonus

\* C17 as claimed: after a Defend and one further Turn Advancer invocation
\* the actor's defense is the value it had before the Defend
C17_DefendExpires ==
    Defended =>
        advanceTurn(state).state.characters[ActorOfCall].stats.defense
            = arg.characters[ActorOfCall].stats.defense

\* C18: in every reachable state winner is set if and only if isComplete
C18_WinnerIffComplete == (state.winner # Nil) <=> state.isComplete

\* an encounter a flee has completed, nobody defeated
C18_Witness ==
    /\ state.isComplete
    /\ state.winner # Nil
    /\ \A i \in 1..Len(state.characters) : state.characters[i].stats.hp > 0

\* the session has a row in the event store
HasSession(sessionID) == SessionIndex(sessions, sessionID) # 0

StatusOf(sessionID) ==
    IF HasSession(sessionID) THEN sessions[SessionIndex(sessions, sessionID)].status
    ELSE "none"

\* the State the session layer holds for the session satisfies CheckCombatEnd
Ended(sessionID) ==
    /\ HasState(stateManager, sessionID)
    /\ CheckCombatEnd(stateManager[sessionID])

\* C19 as claimed: whenever a resolution performed by handleApplyAction or
\* handleGameAction leaves a session with a State for which CheckCombatEnd
\* holds, the session's status eventually becomes "completed"
C19_Completion ==
    \A sessionID \in SessionIDs :
        (HasSession(sessionID) /\ Ended(sessionID)) ~> (StatusOf(sessionID) = "completed")

\* the snapshots stored for a session and round
SnapshotsOf(sessionID, round) ==
    {i \in 1..Len(snapshots) :
        snapshots[i].sessionID = sessionID /\ snapshots[i].round = round}

\* C20 as claimed: the snapshot store holds at most one snapshot per
\* (session, round), whatever requests were served
C20_OnePerRound ==
    \A i, j \in 1..Len(snapshots) :
        (snapshots[i].sessionID = snapshots[j].sessionID
            /\ snapshots[i].round = snapshots[j].round) => i = j

\* the initiative CreateInitialState draws for the i-th character of the
\* roster: its speed plus the i-th d20 of the seed
InitiativeAt(roster, sd, i) ==
    (roster.players \o roster.enemies)[i].stats.speed
        + RollD20([stream |-> sd, pos |-> i - 1])

\* the roster position of the character at position k of the turn order
RosterIndex(roster, st, k) == IndexOfID(roster.players \o roster.enemies, st.turnOrder[k])

\* st is what the claim says CreateInitialState returns for roster and sd
WellStarted(st, roster, sd) ==
    /\ st.round = 1
    /\ st.currentTurn = 0
    /\ ~st.isComplete
    /\ st.winner = Nil
    /\ st.characters = roster.players \o roster.enemies
    /\ IsPermutationOfIDs(st)
    /\ \A k \in 1..(Len(st.turnOrder) - 1) :
           InitiativeAt(roster, sd, RosterIndex(roster, st, k))
               >= InitiativeAt(roster, sd, RosterIndex(roster, st, k + 1))

\* C24: CreateInitialState returns round 1, currentTurn 0, isComplete false,
\* no winner, characters = players followed by enemies, and a turnOrder that
\* lists every id once in non-increasing order of speed + d20
C24_InitialState ==
    \A roster \in EncounterRosters :
        \A sd \in Seeds(Len(roster.players) + Len(roster.enemies)) :
            initial = CreateInitialState(roster.players, roster.enemies, sd)
                => WellStarted(initial, roster, sd)

\* an encounter of three whose turn order does not start with the first of
\* the roster
C24_Witness ==
    /\ state = initial
    /\ Len(initial.characters) = 3
    /\ initial.turnOrder[1] # initial.characters[1].id

\* characters of equal initiative keep their roster order in st's turn order
TiesInRosterOrder(st, roster, sd) ==
    \A k, l \in 1..Len(st.turnOrder) :
        (k < l /\ InitiativeAt(roster, sd, RosterIndex(roster, st, k))
                    = InitiativeAt(roster, sd, RosterIndex(roster, st, l)))
            => RosterIndex(roster, st, k) < RosterIndex(roster, st, l)

C26_WinCondition ==
    /\ AlivePlayers(state.characters) = {}
           => state.isComplete /\ state.winner = "enemy"
    /\ (AlivePlayers(state.characters) # {} /\ AliveEnemies(state.characters) = {})
           => state.isComplete /\ state.winner = "player"

\* C27: a call that runs advanceTurn and leaves the encounter not complete
\* sets currentTurn to (currentTurn + 1) mod len(turnOrder) and adds 1 to
\* round exactly when the new currentTurn is 0; a call that leaves the
\* encounter complete leaves currentTurn and round as they were
C27_TurnProgression ==
    /\ (Called /\ advanced /\ ~state.isComplete) =>
           /\ state.currentTurn = (arg.currentTurn + 1) % Len(arg.turnOrder)
           /\ state.round = arg.round + (IF state.currentTurn = 0 THEN 1 ELSE 0)
    /\ (Called /\ state.isComplete) =>
           /\ state.currentTurn = arg.currentTurn
           /\ state.round = arg.round

\* the second call wraps the turn order of two and starts round 2
C27_Witness ==
    /\ Called
    /\ advanced
    /\ ~state.isComplete
    /\ arg.currentTurn = Len(arg.turnOrder) - 1
    /\ state.currentTurn = 0
    /\ state.round = 2

\* the last call was a Flee by a character of the state
Fled == Called /\ action.kind = "Flee" /\ ActorOfCall # 0

\* the outcome of a successful Flee: one flee event, no advanceTurn, and a
\* state that differs from the argument in isComplete and winner only
FleeSucceeded ==
    /\ events = <<Event("flee", NoID, 0, NoID, action.actor, NoID, NoID)>>
    /\ ~advanced
    /\ state.isComplete
    /\ state.winner # Nil
    /\ [state EXCEPT !.isComplete = arg.isComplete, !.winner = arg.winner] = arg

\* the outcome of a failed Flee: no events, advanceTurn run on the argument
FleeFailed ==
    /\ events = <<>>
    /\ advanced
    /\ state = advanceTurn(arg).state

\* C28: a successful Flee leaves currentTurn, round and every character as
\* in the input, changes only isComplete and winner and emits exactly one
\* flee event; a failed Flee emits no events and runs the Turn Advancer
C28_FleeFrame ==
    Fled =>
        /\ FleeSucceeded \/ FleeFailed
        /\ arg.characters[ActorOfCall].stats.speed + 1 >= FleeDC => FleeSucceeded
        /\ arg.characters[ActorOfCall].stats.speed + 20 < FleeDC => FleeFailed

\* a flee that succeeded while an ability was cooling down: advanceTurn
\* would have decremented the entry
C28_Witness ==
    /\ Fled
    /\ FleeSucceeded
    /\ calls = 2
    /\ \E i \in 1..Len(arg.characters) :
           \E key \in DOMAIN arg.characters[i].abilityCooldowns.kv :
               arg.characters[i].abilityCooldowns.kv[key] > 0


\* the item a UseItem call names, as an index into the actor's inventory of
\* the call's input state (0 when the actor or the item is missing)
ItemOfCall ==
    IF ActorOfCall = 0 THEN 0
    ELSE IndexOfID(arg.characters[ActorOfCall].items, action.item)

ItemUsed == Called /\ action.kind = "UseItem" /\ ItemOfCall # 0

PotionUsed ==
    /\ ItemUsed
    /\ Contains(Chars[arg.characters[ActorOfCall].items[ItemOfCall].name],
                Chars["Potion"])

\* C29: UseItem consumes exactly the named item: for an actor holding
\* action.item at any position of the inventory, the resulting inventory is
\* the input inventory without that item, order preserved, and the item_used
\* event names action.item.
C29_ConsumesNamed ==
    ItemUsed =>
        /\ state.characters[ActorOfCall].items =
               RemoveAt(arg.characters[ActorOfCall].items, ItemOfCall)
        /\ Len(EventsOfType("item_used")) = 1
        /\ EventsOfType("item_used")[1].item = action.item

\* C30: a Potion heals wherever it sits in the inventory and whatever the
\* other items are: hp becomes min(maxHp, hp + 20 + d6) and a heal event for
\* the actor with amount 20 + d6 follows the item_used event.
C30_PotionHeals ==
    PotionUsed =>
        /\ Len(events) = 2
        /\ events[1].type = "item_used"
        /\ events[2].type = "heal"
        /\ events[2].target = arg.characters[ActorOfCall].id
        /\ events[2].amount \in (PotionHeal + 1)..(PotionHeal + 6)
        /\ state.characters[ActorOfCall].stats.hp =
               Min(arg.characters[ActorOfCall].stats.maxHp,
                   arg.characters[ActorOfCall].stats.hp + events[2].amount)


\* goroutine g holds the mutex: its statement is next, or done and not yet
\* returned
Holding(g) == routines[g].pc \in {"locked", "unlock"}

\* no two goroutines are inside a method together unless both only read
Exclusive ==
    \A g, h \in Goroutines :
        g # h /\ Holding(g) /\ Holding(h) =>
            routines[g].method \notin Writers /\ routines[h].method \notin Writers

\* until it returns, what a method did or read is what the map holds
Settled(g) ==
    routines[g].pc = "unlock" =>
        /\ routines[g].method = "SetState" =>
               GetState(stateManager, routines[g].sessionID) =
                   [state |-> routines[g].state, exists |-> TRUE]
        /\ routines[g].method = "DeleteState" =>
               ~GetState(stateManager, routines[g].sessionID).exists
        /\ routines[g].method = "GetState" =>
               routines[g].result = GetState(stateManager, routines[g].sessionID)
        /\ routines[g].method = "GetStateCount" =>
               routines[g].result.count = Cardinality(DOMAIN stateManager)

\* goroutine g runs its statement in this step
Accesses(g) == routines[g].pc = "locked" /\ routines'[g].pc = "unlock"

\* a step changes the map only as the one statement it runs does: SetState
\* adds or replaces its id, DeleteState removes its id, the other ids keep
\* their State, and a step that runs no statement leaves the map alone
OneEffect ==
    /\ (\A g \in Goroutines : ~Accesses(g)) => stateManager' = stateManager
    /\ \A g \in Goroutines :
           Accesses(g) =>
               /\ \A sid \in SessionIDs \ {routines[g].sessionID} :
                      GetState(stateManager', sid) = GetState(stateManager, sid)
               /\ Cardinality(DOMAIN stateManager') =
                      Cardinality(DOMAIN stateManager) +
                      (IF routines[g].method = "SetState"
                          /\ ~HasState(stateManager, routines[g].sessionID)
                       THEN 1
                       ELSE IF routines[g].method = "DeleteState"
                               /\ HasState(stateManager, routines[g].sessionID)
                       THEN 0 - 1
                       ELSE 0)

\* C22: the StateManager is an atomic map: under any interleaving of
\* SetState, GetState, DeleteState and GetStateCount calls from several
\* goroutines no call runs inside another that writes, each call takes effect
\* in one step, a stored State is read back as (state, true), the count is
\* the number of ids stored, a deleted id reads as missing, and the other
\* sessions are unaffected.
C22_AtomicMap ==
    /\ [](~panicked /\ Exclusive /\ \A g \in Goroutines : Settled(g))
    /\ [][OneEffect]_vars

\* both ids are stored and counted while a writer waits for the readers'
\* lock to be released
C22_Witness ==
    \E g, h \in Goroutines :
        /\ routines[g].pc = "unlock"
        /\ routines[g].method = "GetStateCount"
        /\ routines[g].result.count = 2
        /\ routines[h].pc = "lock"
        /\ routines[h].method = "DeleteState"


\* goroutine g has answered 200 to a handleGameAction request on sessionID
Resolved(g, sessionID) ==
    /\ routines[g].pc = "done"
    /\ routines[g].handler = "handleGameAction"
    /\ routines[g].sessionID = sessionID
    /\ routines[g].response.status = 200

\* the events stored for a session, in the order of the log
EventsOf(sessionID) ==
    LET rows == SelectSeq(eventLog, LAMBDA row : row.sessionID = sessionID)
    IN [i \in 1..Len(rows) |-> rows[i].event]

\* C21: two handleGameAction requests on the same session id are serialized:
\* once both are answered, one of them resolved the State the other one
\* stored, the State stored for the session is the result of that second
\* resolution, and the events appended for the session are the events of the
\* two resolutions.
C21_Serialized ==
    \A sessionID \in SessionIDs :
        (\A g \in Goroutines : Resolved(g, sessionID)) =>
            \E g, h \in Goroutines :
                /\ g # h
                /\ routines[h].before = routines[g].state
                /\ GetState(stateManager, sessionID) =
                       [state |-> routines[h].state, exists |-> TRUE]
                /\ EventsOf(sessionID) \in
                       {routines[g].events \o routines[h].events,
                        routines[h].events \o routines[g].events}

\* goroutine g answers its request in this step
Replies(g) == routines[g].pc = "reply" /\ routines'[g].pc = "done"

\* goroutine g answers after AppendEvents or SaveSnapshot returned an error:
\* the StateManager holds the Resolution's State for the session
StateKept(g) ==
    Replies(g) /\ routines'[g].failed =>
        GetState(stateManager', routines[g].sessionID) =
            [state |-> routines[g].state, exists |-> TRUE]

\* C23 as stated: after a failed AppendEvents or SaveSnapshot the
\* StateManager still holds the Resolution's State and the caller of either
\* handler receives the Resolution.
C23_Original ==
    [][\A g \in Goroutines :
           /\ StateKept(g)
           /\ Replies(g) /\ routines'[g].failed =>
                  routines'[g].response =
                      [status |-> 200, events |-> routines[g].events,
                       state |-> routines[g].state, logs |-> routines[g].logs]]_vars

\* C23: after a failed AppendEvents or SaveSnapshot the StateManager still
\* holds the Resolution's State for the session and the caller still receives
\* the answer of a successful request: the Resolution from handleApplyAction,
\* success = true with the Resolution's logs from handleGameAction.
C23_FailedWrite ==
    [][\A g \in Goroutines :
           /\ StateKept(g)
           /\ Replies(g) /\ routines'[g].failed =>
                  routines'[g].response =
                      IF routines[g].handler = "handleApplyAction"
                      THEN [status |-> 200, events |-> routines[g].events,
                            state |-> routines[g].state, logs |-> routines[g].logs]
                      ELSE [status |-> 200, success |-> TRUE,
                            logs |-> routines[g].logs]]_vars

\* each handler has answered a request one of whose writes failed
C23_Witness ==
    \E g, h \in Goroutines :
        /\ routines[g].pc = "done" /\ routines[h].pc = "done"
        /\ routines[g].failed /\ routines[h].failed
        /\ routines[g].handler = "handleApplyAction"
        /\ routines[h].handler = "handleGameAction"
        /\ Len(snapshots) = 1


\* the session's snapshots of the greatest round <= round, as found States,
\* and nothing found when it has none
BestSnapshots(sessionID, round) ==
    LET mine == {i \in 1..Len(snapshots) :
                    snapshots[i].sessionID = sessionID /\ snapshots[i].round <= round}
    IN IF mine = {} THEN {[state |-> ZeroState, found |-> FALSE]}
       ELSE {[state |-> snapshots[i].stateData, found |-> TRUE] :
                i \in {i \in mine : \A j \in mine : snapshots[j].round <= snapshots[i].round}}

\* C31: after any sequence of SaveSnapshot calls, GetSnapshotAtRound of
\* either store returns a snapshot of the session with the greatest stored
\* round <= r, nothing when there is none, and what the memory store returns
\* is what the sqlite store returns.
C31_SnapshotAtRound ==
    \A sessionID \in {"s1", "s12"}, round \in 0..MaxRound :
        /\ \A be \in Backends :
               GetSnapshotAtRound(snapshots, be, sessionID, round)
                   \subseteq BestSnapshots(sessionID, round)
        /\ GetSnapshotAtRound(snapshots, "memory", sessionID, round)
               \subseteq GetSnapshotAtRound(snapshots, "sqlite", sessionID, round)


\* the events appended for the session with a round >= fromRound, in the
\* order they were appended
AppendedSince(sessionID, fromRound) ==
    LET rows == SelectSeq(eventLog, LAMBDA row : row.sessionID = sessionID
                                                     /\ row.round >= fromRound)
    IN [k \in 1..Len(rows) |-> rows[k].event]

\* C32: GetEvents(sessionID, fromRound) of either store returns exactly the
\* events appended with that session id and a round >= fromRound, in append
\* order, and no event of another session, not even of one whose id starts
\* with sessionID.
C32_GetEvents ==
    \A be \in Backends, sessionID \in {"s1", "s12"}, fromRound \in 0..MaxRound :
        GetEvents(eventLog, be, sessionID, fromRound) =
            AppendedSince(sessionID, fromRound)


\* the State st with the damage and heal events of evs, from the i-th on,
\* applied to the hp of their targets, clamped at 0 and at maxHp
RECURSIVE Replay(_, _, _)
Replay(st, evs, i) ==
    IF i > Len(evs) THEN st
    ELSE LET t == GetCharacterByID(st, evs[i].target)
         IN Replay(IF t = 0 \/ evs[i].type \notin {"damage", "heal"} THEN st
                   ELSE IF evs[i].type = "damage"
                   THEN [st EXCEPT !.characters[t].stats.hp = ApplyDamage(@, evs[i].amount)]
                   ELSE [st EXCEPT !.characters[t].stats.hp =
                                       ApplyHeal(@, st.characters[t].stats.maxHp,
                                                 evs[i].amount)],
                   evs, i + 1)

\* the requests so far were all handled by one goroutine, one after the
\* other, and the last one is answered
ServedInTurn ==
    /\ mode = "requests"
    /\ \E g \in Goroutines :
           /\ routines[g].pc = "done"
           /\ \A h \in Goroutines \ {g} : routines[h].pc = "idle"

\* C33: for a session started by handleStartGame and driven by
\* handleGameAction, the hp of every character in the State the server holds
\* is the hp got from the session's latest snapshot by replaying the damage
\* and heal events GetEvents returns from that snapshot's round on.
C33_Reconstruction ==
    \A sessionID \in UUIDs :
        ServedInTurn /\ HasState(stateManager, sessionID) =>
            \A snap \in GetLatestSnapshot(snapshots, backend, sessionID) :
                /\ snap.found
                /\ \A c \in 1..Len(stateManager[sessionID].characters) :
                       stateManager[sessionID].characters[c].stats.hp =
                           Replay(snap.state,
                                  GetEvents(eventLog, backend, sessionID, snap.state.round),
                                  1).characters[c].stats.hp


\* the last call's actor exists and is not the character whose turn it was
OutOfTurn ==
    /\ Called
    /\ ActorOfCall # 0
    /\ GetCurrentCharacter(arg) # ActorOfCall

\* C34: only the character whose turn it is can act: an action whose actor
\* is any other existing character has no effect, the state it returns is the
\* state it was given and it emits no events.
C34_OnlyCurrentActs ==
    OutOfTurn => state = arg /\ events = <<>> /\ ~advanced

\* C35: isComplete is stable: no call of ApplyAction takes a State whose
\* isComplete is true to one whose isComplete is false.
C35_CompleteIsStable == [][state.isComplete => state'.isComplete]_vars

\* a call was made on a completed State, ran advanceTurn and left it complete
C35_Witness == Called /\ arg.isComplete /\ advanced /\ state.isComplete

\* C36: the winner is final: once a State has a winner, no call of
\* ApplyAction returns a State with another winner.
C36_WinnerIsFinal == [][state.winner # Nil => state'.winner = state.winner]_vars

\* the combat fields of a State's characters
Combat(st) ==
    [c \in 1..Len(st.characters) |->
        [hp |-> st.characters[c].stats.hp,
         defense |-> st.characters[c].stats.defense,
         items |-> st.characters[c].items,
         cooldowns |-> st.characters[c].abilityCooldowns]]

\* C37: a completed encounter is frozen: a call of ApplyAction on a State
\* whose isComplete is true changes no character's hp, defense, items or
\* cooldowns and emits no events.
C37_CompletedIsFrozen ==
    Called /\ arg.isComplete => Combat(state) = Combat(arg) /\ events = <<>>

\* the death events emitted for the character id over the calls made
DeathsOf(id) == Len(SelectSeq(events, LAMBDA e : e.type = "death" /\ e.target = id))

\* C38: a character dies at most once: over the calls of one encounter at
\* most one death event is emitted for any character id.
C38_DiesOnce == mode = "history" => \A id \in CharacterIDs : DeathsOf(id) <= 1

\* C39: the turn never belongs to a defeated character: in every State of an
\* encounter that is not complete, the character at turnOrder[currentTurn]
\* has hp > 0.
C39_TurnOfTheLiving ==
    mode = "encounter" /\ ~state.isComplete /\ GetCurrentCharacter(state) # 0 =>
        state.characters[GetCurrentCharacter(state)].stats.hp > 0

\* C40: defense never erodes: no character's defense is lower than its
\* defense at encounter creation.
C40_DefenseNeverErodes ==
    mode = "encounter" =>
        \A c \in 1..Len(state.characters) :
            state.characters[c].stats.defense >= initial.characters[c].stats.defense

====
